---- MODULE Spec2Model ----
(***************************************************************************)
(* Model of tools/perplexity-search.py: one run of main() from argument   *)
(* parsing to process exit.                                                *)
(*                                                                         *)
(* Text is a sequence of tokens; the token "\n" is a line break and every  *)
(* other token is a piece of text without a line break.  The Chinese       *)
(* message literals of the source are rendered as ASCII tokens.            *)
(* Python values are tagged records: PyNone, PyStr, PyInt, PyList, PyDict. *)
(* The interpreter is CPython >= 3.10 (socket.timeout is TimeoutError).    *)
(***************************************************************************)
EXTENDS Naturals, Sequences, FiniteSets, TLC

VARIABLES
    cmdline,      \* the command line (sys.argv[1:]), abstracted
    env,          \* os.environ
    fs0,          \* the file at the output path before the run
    pc,           \* position in the program
    args,         \* the argparse Namespace
    api_key,      \* main's api_key
    payload,      \* call_openrouter's payload
    request,      \* the Request handed to urlopen
    posts,        \* number of urlopen calls made
    net,          \* what happened on the wire for the one request
    response,     \* the object urlopen returned
    result_json,  \* call_openrouter's result (the decoded body)
    exc,          \* the exception being raised
    result,       \* main's result (what call_openrouter returned)
    stdout,       \* sys.stdout: one entry per write
    stderr,       \* sys.stderr: one entry per write
    file,         \* the file at args.output
    exit          \* how the process ended

vars == <<cmdline, env, fs0, pc, args, api_key, payload, request, posts, net,
          response, result_json, exc, result, stdout, stderr, file, exit>>

-----------------------------------------------------------------------------
(* Bounds *)

MaxQueryLen == 2
MaxContentLen == 1

-----------------------------------------------------------------------------
(* Text and Python values *)

NL == "\n"

TextsOver(alphabet, n) == UNION {[1..k -> alphabet] : k \in 0..n}

\* a variable the program has not assigned yet
Unset == [t |-> "unset"]

PyNone == [t |-> "none"]
PyStr(s) == [t |-> "str", s |-> s]
PyInt(n) == [t |-> "int", n |-> n]
PyList(a) == [t |-> "list", a |-> a]
PyDict(o) == [t |-> "dict", o |-> o]

Ok(v) == [ok |-> TRUE, v |-> v]
Raise(type) == [ok |-> FALSE, exc |-> [type |-> type]]

\* bool(v), as used by `if not api_key` and `if args.output`
Truthy(v) ==
    CASE v.t = "none" -> FALSE
      [] v.t = "str" -> v.s # <<>>
      [] v.t = "int" -> v.n # 0
      [] v.t = "list" -> v.a # <<>>
      [] v.t = "dict" -> DOMAIN v.o # {}

\* str(v), as print(v) applies it
PyToStr(v) ==
    CASE v.t = "none" -> <<"None">>
      [] v.t = "str" -> v.s
      [] v.t = "int" -> <<ToString(v.n)>>
      [] OTHER -> <<"<repr>">>

\* item in container
PyContains(item, c) ==
    CASE c.t = "dict" -> Ok(item \in DOMAIN c.o)
      [] c.t = "list" -> Ok(\E i \in 1..Len(c.a) : c.a[i] = PyStr(<<item>>))
      [] c.t = "str" -> Ok(\E i \in 1..Len(c.s) : c.s[i] = item)
      [] OTHER -> Raise("TypeError")

\* len(c)
PyLen(c) ==
    CASE c.t = "dict" -> Ok(Cardinality(DOMAIN c.o))
      [] c.t = "list" -> Ok(Len(c.a))
      [] c.t = "str" -> Ok(Len(c.s))
      [] OTHER -> Raise("TypeError")

\* c[key] for a string key
PyGetKey(c, key) ==
    CASE c.t = "dict" -> IF key \in DOMAIN c.o THEN Ok(c.o[key]) ELSE Raise("KeyError")
      [] OTHER -> Raise("TypeError")

\* c[0]
PyGetFirst(c) ==
    CASE c.t = "list" -> IF c.a # <<>> THEN Ok(c.a[1]) ELSE Raise("IndexError")
      [] c.t = "str" -> IF c.s # <<>> THEN Ok(PyStr(<<c.s[1]>>)) ELSE Raise("IndexError")
      [] c.t = "dict" -> Raise("KeyError")
      [] OTHER -> Raise("TypeError")

-----------------------------------------------------------------------------
(* json.dumps / json.loads, str.encode / bytes.decode *)

\* the order in which the keys of a dict are written (insertion order)
KeyOrder == <<"model", "messages", "role", "content", "choices", "message", "error">>

Pad(n) == [i \in 1..n |-> " "]

RECURSIVE Flatten(_)
Flatten(ss) == IF ss = <<>> THEN <<>> ELSE Head(ss) \o Flatten(Tail(ss))

\* a str between quotes, its line breaks escaped
JsonString(s) ==
    <<"\"">> \o [i \in 1..Len(s) |-> IF s[i] = NL THEN "\\n" ELSE s[i]] \o <<"\"">>

\* json.dumps(v, indent=ind) at nesting depth d; ind = 0 is indent=None
RECURSIVE JsonDumpsAt(_, _, _)
JsonDumpsAt(v, ind, d) ==
    LET open == IF ind = 0 THEN <<>> ELSE <<NL>> \o Pad(ind * (d + 1))
        close == IF ind = 0 THEN <<>> ELSE <<NL>> \o Pad(ind * d)
        sep == IF ind = 0 THEN <<", ">> ELSE <<",">> \o open
        Join(items) ==
            Flatten([i \in 1..Len(items) |->
                        (IF i = 1 THEN open ELSE sep) \o items[i]]) \o close
    IN  CASE v.t = "none" -> <<"null">>
          [] v.t = "int" -> <<ToString(v.n)>>
          [] v.t = "str" -> JsonString(v.s)
          [] v.t = "list" ->
                IF v.a = <<>> THEN <<"[]">>
                ELSE <<"[">>
                     \o Join([i \in 1..Len(v.a) |-> JsonDumpsAt(v.a[i], ind, d + 1)])
                     \o <<"]">>
          [] v.t = "dict" ->
                LET keys == SelectSeq(KeyOrder, LAMBDA k : k \in DOMAIN v.o)
                IN  IF keys = <<>> THEN <<"{}">>
                    ELSE <<"{">>
                         \o Join([i \in 1..Len(keys) |->
                                    JsonString(<<keys[i]>>) \o <<": ">>
                                    \o JsonDumpsAt(v.o[keys[i]], ind, d + 1)])
                         \o <<"}">>

JsonDumps(v, ind) == JsonDumpsAt(v, ind, 0)

\* str.encode("utf-8") and bytes.decode("utf-8")
Encode(s) == [valid_utf8 |-> TRUE, s |-> s]
Decode(b) == IF b.valid_utf8 THEN Ok(b.s) ELSE Raise("UnicodeDecodeError")

-----------------------------------------------------------------------------
(* Program constants *)

OPENROUTER_API_URL == "https://openrouter.ai/api/v1/chat/completions"

Modes == {"search", "context", "research"}

MODELS ==
    [search |-> "perplexity/sonar-pro-search",
     context |-> "perplexity/sonar",
     research |-> "perplexity/sonar-deep-research"]

MODEL_DESCRIPTIONS ==
    [search |-> "quick API/docs search (sonar-pro-search)",
     context |-> "large-context search (sonar)",
     research |-> "deep research report (sonar-deep-research)"]

SYSTEM_PROMPTS ==
    [search |-> "system prompt: technical search assistant",
     context |-> "system prompt: technical research assistant, large context",
     research |-> "system prompt: deep research assistant"]

UrlopenTimeout == 300

\* the lines printed for a timeout and for an unexpected response format
TimeoutMessage == <<"Error: the request timed out (300 s)", NL>>
MalformedMessage == <<"Error: the API returned an unexpected response format", NL>>

\* the lines of call_openrouter's try block, and its except clauses in order
TryLines == 104..121
ExceptClauses == <<"HTTPError", "URLError", "TimeoutError">>

-----------------------------------------------------------------------------
(* Exceptions *)

Base ==
    [HTTPError |-> "URLError", URLError |-> "OSError", TimeoutError |-> "OSError",
     ConnectionResetError |-> "OSError", FileNotFoundError |-> "OSError",
     OSError |-> "Exception", UnicodeDecodeError |-> "ValueError",
     JSONDecodeError |-> "ValueError", ValueError |-> "Exception",
     KeyError |-> "LookupError", IndexError |-> "LookupError",
     LookupError |-> "Exception", TypeError |-> "Exception",
     Exception |-> "BaseException"]

RECURSIVE IsInstance(_, _)
IsInstance(type, cls) ==
    \/ type = cls
    \/ type \in DOMAIN Base /\ IsInstance(Base[type], cls)

NoExc == [type |-> "none", line |-> 0]

\* the exception of a failed evaluation r, raised at source line n
RaisedAt(r, n) == [type |-> r.exc.type, line |-> n]

\* the except clause that takes e: the first one, in order, whose class e is an
\* instance of, if e was raised inside the try block; "unhandled" otherwise
Handler(e) ==
    LET m == {i \in 1..Len(ExceptClauses) : IsInstance(e.type, ExceptClauses[i])}
    IN  IF e.line \in TryLines /\ m # {}
        THEN ExceptClauses[CHOOSE i \in m : \A j \in m : i <= j]
        ELSE "unhandled"

-----------------------------------------------------------------------------
(* Inputs: command lines, environments, what the network and the gateway do *)

Queries == TextsOver({"q", NL}, MaxQueryLen)
Contents == TextsOver({"r", NL}, MaxContentLen)

Cmdlines ==
    [help : {"absent", "before_mode", "after_mode"},
     mode : Modes \cup {"bogus"},
     query : {PyNone} \cup {PyStr(q) : q \in Queries},
     output : {PyNone, PyStr(<<>>), PyStr(<<"out.md">>)}]

Envs ==
    {[n \in {} |-> <<>>],
     [n \in {"OPENROUTER_KEY"} |-> <<>>],
     [n \in {"OPENROUTER_KEY"} |-> <<"sk-1">>]}

InitialFiles ==
    {[exists |-> FALSE, opened |-> FALSE, content |-> <<>>],
     [exists |-> TRUE, opened |-> FALSE, content |-> <<"old", NL>>]}

Completion(c) ==
    PyDict([choices |-> PyList(<<PyDict([message |-> PyDict([content |-> c])])>>)])

ErrorJson == PyDict([error |-> PyStr(<<"invalid key">>)])

\* the JSON documents the gateway may send
JsonValues ==
    {Completion(PyStr(c)) : c \in Contents}
    \cup {Completion(PyNone),
          PyDict([choices |-> PyList(<<>>)]),
          PyDict([choices |-> PyNone]),
          PyDict([choices |-> PyList(<<PyDict([message |-> PyDict(<<>>)])>>)]),
          PyDict([choices |-> PyList(<<PyDict(<<>>)>>)]),
          PyDict(<<>>),
          ErrorJson,
          PyList(<<>>),
          PyInt(5),
          PyStr(<<"choices">>)}

\* json.loads(s): the value whose document s is, or JSONDecodeError
JsonLoads(s) ==
    IF \E v \in JsonValues : JsonDumps(v, 0) = s
    THEN Ok(CHOOSE v \in JsonValues : JsonDumps(v, 0) = s)
    ELSE Raise("JSONDecodeError")

BadBytes == [valid_utf8 |-> FALSE, s |-> <<>>]

Bodies ==
    {Encode(JsonDumps(v, 0)) : v \in JsonValues}
    \cup {Encode(<<"<html>">>), Encode(<<>>), BadBytes}

ErrorBodies ==
    {Encode(JsonDumps(ErrorJson, 0)), Encode(<<"oops">>), Encode(<<>>), BadBytes}

HttpStatuses ==
    {[code |-> 401, reason |-> "Unauthorized"],
     [code |-> 500, reason |-> "Internal Server Error"]}

\* What happens to the one request on the wire.
NetEvents ==
    {[kind |-> k] : k \in {"dns_failure", "connection_refused", "connect_timeout",
                           "response_timeout", "connection_reset"}}
    \cup {[kind |-> "http_error", code |-> st.code, reason |-> st.reason, fp |-> fp] :
            st \in HttpStatuses, fp \in {PyNone} \cup ErrorBodies}
    \cup {[kind |-> "ok", body |-> b, read_timeout |-> rt] :
            b \in Bodies, rt \in BOOLEAN}

\* urlopen(request, timeout=300): the response, or the exception it raises.
\* urllib wraps an OSError of connecting or sending in URLError; an error of
\* waiting for the status line is raised as it is; a status outside 2xx is
\* raised as HTTPError.
UrlOpenOutcome(ev) ==
    CASE ev.kind = "dns_failure" ->
            [ok |-> FALSE, exc |-> [type |-> "URLError", line |-> 112,
                                    reason |-> <<"[Errno -2] Name or service not known">>]]
      [] ev.kind = "connection_refused" ->
            [ok |-> FALSE, exc |-> [type |-> "URLError", line |-> 112,
                                    reason |-> <<"[Errno 111] Connection refused">>]]
      [] ev.kind = "connect_timeout" ->
            [ok |-> FALSE, exc |-> [type |-> "URLError", line |-> 112,
                                    reason |-> <<"timed out">>]]
      [] ev.kind = "response_timeout" ->
            [ok |-> FALSE, exc |-> [type |-> "TimeoutError", line |-> 112]]
      [] ev.kind = "connection_reset" ->
            [ok |-> FALSE, exc |-> [type |-> "ConnectionResetError", line |-> 112]]
      [] ev.kind = "http_error" ->
            [ok |-> FALSE, exc |-> [type |-> "HTTPError", line |-> 112, code |-> ev.code,
                                    reason |-> ev.reason, fp |-> ev.fp]]
      [] ev.kind = "ok" ->
            [ok |-> TRUE, v |-> [status |-> 200, body |-> ev.body,
                                 read_timeout |-> ev.read_timeout]]

-----------------------------------------------------------------------------
(* Helpers of the actions *)

Running == [done |-> FALSE, code |-> 0, how |-> "running"]
Exited(code, how) == [done |-> TRUE, code |-> code, how |-> how]

\* print(text, file=stream): the text and a line break, in one entry
PrintLine(stream, text) == Append(stream, text \o <<NL>>)

\* parser.parse_args(): "help" (-h/--help reached: usage printed, exit 0),
\* "error" (usage error, exit 2) or "ok".  Arguments are taken left to right, so
\* a -h before the mode wins over a bad mode, and a bad mode over a later -h.
ParseOutcome(c) ==
    CASE c.help = "before_mode" -> "help"
      [] c.help # "before_mode" /\ c.mode \notin Modes -> "error"
      [] c.help = "after_mode" /\ c.mode \in Modes -> "help"
      [] c.help = "absent" /\ c.mode \in Modes /\ c.query = PyNone -> "error"
      [] OTHER -> "ok"

\* os.environ.get(name)
EnvironGet(e, name) == IF name \in DOMAIN e THEN PyStr(e[name]) ELSE PyNone

\* variant of KeyMissing: `if api_key is None`, which lets an empty key through
KeyMissing_NoneOnly(k) == k = PyNone

\* `if not api_key`
KeyMissing(k) == ~Truthy(k)

\* variant of BuildPayload: the user message ahead of the system message
BuildPayload_UserFirst(query, mode) ==
    PyDict([model |-> PyStr(<<MODELS[mode]>>),
            messages |-> PyList(<<
                PyDict([role |-> PyStr(<<"user">>), content |-> query]),
                PyDict([role |-> PyStr(<<"system">>),
                        content |-> PyStr(<<SYSTEM_PROMPTS[mode]>>)])>>)])

\* call_openrouter's payload
BuildPayload(query, mode) ==
    PyDict([model |-> PyStr(<<MODELS[mode]>>),
            messages |-> PyList(<<
                PyDict([role |-> PyStr(<<"system">>),
                        content |-> PyStr(<<SYSTEM_PROMPTS[mode]>>)]),
                PyDict([role |-> PyStr(<<"user">>), content |-> query])>>)])

\* call_openrouter's headers
BuildHeaders(key) ==
    ("Content-Type" :> <<"application/json">>)
    @@ ("Authorization" :> <<"Bearer ">> \o key.s)
    @@ ("HTTP-Referer" :> <<"https://github.com/pgd-LC2/aisitebuilder">>)
    @@ ("X-Title" :> <<"aisitebuilder-perplexity-search">>)

\* variant of HasChoices: `"choices" in result`, without the length test
HasChoices_NoLen(r) == PyContains("choices", r)

\* `"choices" in result and len(result["choices"]) > 0`
HasChoices(r) ==
    LET c == PyContains("choices", r)
    IN  IF ~c.ok THEN c
        ELSE IF ~c.v THEN Ok(FALSE)
        ELSE LET g == PyGetKey(r, "choices")
             IN  IF ~g.ok THEN g
                 ELSE LET l == PyLen(g.v)
                      IN  IF ~l.ok THEN l ELSE Ok(l.v > 0)

\* result["choices"][0]["message"]["content"]
FirstContent(r) ==
    LET g == PyGetKey(r, "choices")
    IN  IF ~g.ok THEN g
        ELSE LET f == PyGetFirst(g.v)
             IN  IF ~f.ok THEN f
                 ELSE LET m == PyGetKey(f.v, "message")
                      IN  IF ~m.ok THEN m ELSE PyGetKey(m.v, "content")

\* variant of ReportWrites: no empty line after the separator
ReportWrites_ShortSeparator(a, r) ==
    << PyStr(<<"# Perplexity search result", NL, NL>>),
       PyStr(<<"**mode**: ", MODEL_DESCRIPTIONS[a.mode], NL, NL>>),
       PyStr(<<"**query**: ">> \o a.query.s \o <<NL, NL>>),
       PyStr(<<"---", NL>>),
       r >>

\* the arguments of the five f.write calls, in order
ReportWrites(a, r) ==
    << PyStr(<<"# Perplexity search result", NL, NL>>),
       PyStr(<<"**mode**: ", MODEL_DESCRIPTIONS[a.mode], NL, NL>>),
       PyStr(<<"**query**: ">> \o a.query.s \o <<NL, NL>>),
       PyStr(<<"---", NL, NL>>),
       r >>

\* what can happen to the output file: it cannot be opened, or the k-th write fails
IoOutcomes ==
    {[kind |-> "ok"], [kind |-> "open_error"]}
    \cup {[kind |-> "write_error", at |-> k] : k \in 1..5}

-----------------------------------------------------------------------------
(* The program *)

Init ==
    /\ cmdline \in Cmdlines
    /\ env \in Envs
    /\ fs0 \in InitialFiles
    /\ file = fs0
    /\ pc = "parse_args"
    /\ args = Unset
    /\ api_key = Unset
    /\ payload = Unset
    /\ request = Unset
    /\ posts = 0
    /\ net = [kind |-> "none"]
    /\ response = Unset
    /\ result_json = Unset
    /\ exc = NoExc
    /\ result = Unset
    /\ stdout = <<>>
    /\ stderr = <<>>
    /\ exit = Running

\* main, lines 144-176: parser.parse_args()
ParseArgs ==
    /\ pc = "parse_args"
    /\ LET r == ParseOutcome(cmdline)
       IN  /\ args' = IF r = "ok"
                      THEN [mode |-> cmdline.mode, query |-> cmdline.query,
                            output |-> cmdline.output]
                      ELSE args
           /\ stdout' = IF r = "help" THEN Append(stdout, <<"usage: ...", NL>>) ELSE stdout
           /\ stderr' = IF r = "error"
                        THEN stderr \o << <<"usage: ...", NL>>, <<"prog: error: ...", NL>> >>
                        ELSE stderr
           /\ exit' = CASE r = "help" -> Exited(0, "help")
                        [] r = "error" -> Exited(2, "argparse")
                        [] OTHER -> exit
           /\ pc' = IF r = "ok" THEN "get_api_key" ELSE "exited"
    /\ UNCHANGED <<cmdline, env, fs0, api_key, payload, request, posts, net, response,
                   result_json, exc, result, file>>

\* get_api_key, lines 69-76
GetApiKey ==
    /\ pc = "get_api_key"
    /\ LET k == EnvironGet(env, "OPENROUTER_KEY")
       IN  IF KeyMissing(k)
           THEN /\ stderr' = PrintLine(PrintLine(stderr,
                                <<"Error: the OPENROUTER_KEY environment variable is not set">>),
                                <<"Set it with: export OPENROUTER_KEY='your-api-key'">>)
                /\ exit' = Exited(1, "sys.exit")
                /\ pc' = "exited"
                /\ UNCHANGED api_key
           ELSE /\ api_key' = k
                /\ pc' = "call_openrouter"
                /\ UNCHANGED <<stderr, exit>>
    /\ UNCHANGED <<cmdline, env, fs0, args, payload, request, posts, net, response,
                   result_json, exc, result, stdout, file>>

\* call_openrouter, lines 81-102: the payload and the progress lines
BuildRequest ==
    /\ pc = "call_openrouter"
    /\ payload' = BuildPayload(args.query, args.mode)
    /\ stdout' = PrintLine(PrintLine(PrintLine(PrintLine(stdout,
                    <<NL, "Searching with ", MODEL_DESCRIPTIONS[args.mode], " ...", NL>>),
                    <<"Model: ", MODELS[args.mode]>>),
                    <<"Query: ">> \o args.query.s \o <<NL>>),
                    <<"------------------------------------------------------------">>)
    /\ pc' = "urlopen"
    /\ UNCHANGED <<cmdline, env, fs0, args, api_key, request, posts, net, response,
                   result_json, exc, result, stderr, file, exit>>

\* call_openrouter, lines 105-112: the Request and the one urlopen call
UrlOpen ==
    /\ pc = "urlopen"
    /\ request' = [url |-> OPENROUTER_API_URL,
                   data |-> Encode(JsonDumps(payload, 0)),
                   headers |-> BuildHeaders(api_key),
                   method |-> "POST",
                   timeout |-> UrlopenTimeout]
    /\ posts' = posts + 1
    /\ \E ev \in NetEvents :
          /\ net' = ev
          /\ LET o == UrlOpenOutcome(ev)
             IN  IF o.ok
                 THEN /\ response' = o.v
                      /\ pc' = "read"
                      /\ UNCHANGED exc
                 ELSE /\ exc' = o.exc
                      /\ pc' = "raise"
                      /\ UNCHANGED response
    /\ UNCHANGED <<cmdline, env, fs0, args, api_key, payload, result_json, result,
                   stdout, stderr, file, exit>>

\* call_openrouter, line 113: json.loads(response.read().decode("utf-8"))
ReadResponse ==
    /\ pc = "read"
    /\ LET d == Decode(response.body)
           j == JsonLoads(d.v)
       IN  IF response.read_timeout
           THEN /\ exc' = [type |-> "TimeoutError", line |-> 113]
                /\ pc' = "raise"
                /\ UNCHANGED result_json
           ELSE IF ~d.ok
           THEN /\ exc' = RaisedAt(d, 113)
                /\ pc' = "raise"
                /\ UNCHANGED result_json
           ELSE IF ~j.ok
           THEN /\ exc' = RaisedAt(j, 113)
                /\ pc' = "raise"
                /\ UNCHANGED result_json
           ELSE /\ result_json' = j.v
                /\ pc' = "extract"
                /\ UNCHANGED exc
    /\ UNCHANGED <<cmdline, env, fs0, args, api_key, payload, request, posts, net,
                   response, result, stdout, stderr, file, exit>>

\* call_openrouter, lines 115-121: return the content, or report the shape and exit
ExtractContent ==
    /\ pc = "extract"
    /\ LET h == HasChoices(result_json)
           c == FirstContent(result_json)
       IN  IF ~h.ok
           THEN /\ exc' = RaisedAt(h, 115)
                /\ pc' = "raise"
                /\ UNCHANGED <<result, stderr, exit>>
           ELSE IF h.v /\ ~c.ok
           THEN /\ exc' = RaisedAt(c, 116)
                /\ pc' = "raise"
                /\ UNCHANGED <<result, stderr, exit>>
           ELSE IF h.v
           THEN /\ result' = c.v
                /\ pc' = "present"
                /\ UNCHANGED <<exc, stderr, exit>>
           ELSE /\ stderr' = PrintLine(Append(stderr, MalformedMessage),
                                <<"Response: ">> \o JsonDumps(result_json, 2))
                /\ exit' = Exited(1, "sys.exit")
                /\ pc' = "exited"
                /\ UNCHANGED <<exc, result>>
    /\ UNCHANGED <<cmdline, env, fs0, args, api_key, payload, request, posts, net,
                   response, result_json, stdout, file>>

\* call_openrouter, lines 123-132: except HTTPError
ExceptHTTPError ==
    /\ pc = "raise"
    /\ Handler(exc) = "HTTPError"
    /\ LET body == IF exc.fp # PyNone THEN Decode(exc.fp) ELSE Ok(<<>>)
           j == JsonLoads(body.v)
           status == PrintLine(stderr,
                        <<"HTTP error ", ToString(exc.code), ": ", exc.reason>>)
       IN  IF ~body.ok
           THEN /\ exc' = RaisedAt(body, 124)
                /\ UNCHANGED <<pc, stderr, exit>>
           ELSE /\ stderr' = IF body.v = <<>> THEN status
                             ELSE IF j.ok
                             THEN PrintLine(status, <<"Error detail: ">> \o JsonDumps(j.v, 2))
                             ELSE PrintLine(status, <<"Error detail: ">> \o body.v)
                /\ exit' = Exited(1, "sys.exit")
                /\ pc' = "exited"
                /\ UNCHANGED exc
    /\ UNCHANGED <<cmdline, env, fs0, args, api_key, payload, request, posts, net,
                   response, result_json, result, stdout, file>>

\* call_openrouter, lines 134-136: except URLError
ExceptURLError ==
    /\ pc = "raise"
    /\ Handler(exc) = "URLError"
    /\ stderr' = PrintLine(stderr, <<"Network error: ">> \o exc.reason)
    /\ exit' = Exited(1, "sys.exit")
    /\ pc' = "exited"
    /\ UNCHANGED <<cmdline, env, fs0, args, api_key, payload, request, posts, net,
                   response, result_json, exc, result, stdout, file>>

\* call_openrouter, lines 138-140: except TimeoutError
ExceptTimeoutError ==
    /\ pc = "raise"
    /\ Handler(exc) = "TimeoutError"
    /\ stderr' = Append(stderr, TimeoutMessage)
    /\ exit' = Exited(1, "sys.exit")
    /\ pc' = "exited"
    /\ UNCHANGED <<cmdline, env, fs0, args, api_key, payload, request, posts, net,
                   response, result_json, exc, result, stdout, file>>

\* an exception no except clause takes leaves main(): traceback, exit status 1
Traceback ==
    /\ pc = "raise"
    /\ Handler(exc) = "unhandled"
    /\ stderr' = PrintLine(stderr, <<"Traceback (most recent call last): ", exc.type>>)
    /\ exit' = Exited(1, "traceback")
    /\ pc' = "exited"
    /\ UNCHANGED <<cmdline, env, fs0, args, api_key, payload, request, posts, net,
                   response, result_json, exc, result, stdout, file>>

\* variant of PrintResult: with an output path the result goes to the file only
PrintResult_FileOnly ==
    /\ pc = "present"
    /\ stdout' = IF Truthy(args.output) THEN stdout
                 ELSE PrintLine(PrintLine(PrintLine(PrintLine(stdout,
                    <<NL, "============================================================">>),
                    <<"Search result:">>),
                    <<"============================================================", NL>>),
                    PyToStr(result))
    /\ pc' = "output"
    /\ UNCHANGED <<cmdline, env, fs0, args, api_key, payload, request, posts, net,
                   response, result_json, exc, result, stderr, file, exit>>

\* main, lines 181-184: the banner and the response
PrintResult ==
    /\ pc = "present"
    /\ stdout' = PrintLine(PrintLine(PrintLine(PrintLine(stdout,
                    <<NL, "============================================================">>),
                    <<"Search result:">>),
                    <<"============================================================", NL>>),
                    PyToStr(result))
    /\ pc' = "output"
    /\ UNCHANGED <<cmdline, env, fs0, args, api_key, payload, request, posts, net,
                   response, result_json, exc, result, stderr, file, exit>>

\* main, line 186: no output path, or an empty one
SkipOutput ==
    /\ pc = "output"
    /\ ~Truthy(args.output)
    /\ pc' = "return"
    /\ UNCHANGED <<cmdline, env, fs0, args, api_key, payload, request, posts, net,
                   response, result_json, exc, result, stdout, stderr, file, exit>>

\* main, lines 186-192: open the file for writing and write the report.  A write
\* of a value that is not a str raises TypeError; what was written before a
\* failure stays in the file.
WriteOutput ==
    /\ pc = "output"
    /\ Truthy(args.output)
    /\ \E io \in IoOutcomes :
          LET w == ReportWrites(args, result)
              bad == {k \in 1..Len(w) : w[k].t # "str"}
                     \cup (IF io.kind = "write_error" THEN {io.at} ELSE {})
              stop == IF bad = {} THEN Len(w) + 1
                      ELSE CHOOSE k \in bad : \A m \in bad : k <= m
              type == IF stop <= Len(w) /\ w[stop].t # "str" THEN "TypeError" ELSE "OSError"
          IN  IF io.kind = "open_error"
              THEN /\ exc' = [type |-> "FileNotFoundError", line |-> 187]
                   /\ pc' = "raise"
                   /\ UNCHANGED file
              ELSE /\ file' = [exists |-> TRUE, opened |-> TRUE,
                               content |-> Flatten([k \in 1..(stop - 1) |-> w[k].s])]
                   /\ IF stop <= Len(w)
                      THEN /\ exc' = [type |-> type, line |-> 187 + stop]
                           /\ pc' = "raise"
                      ELSE /\ pc' = "saved"
                           /\ UNCHANGED exc
    /\ UNCHANGED <<cmdline, env, fs0, args, api_key, payload, request, posts, net,
                   response, result_json, result, stdout, stderr, exit>>

\* main, line 193: the confirmation line
PrintSaved ==
    /\ pc = "saved"
    /\ stdout' = PrintLine(stdout, <<NL, "Result saved to: ">> \o args.output.s)
    /\ pc' = "return"
    /\ UNCHANGED <<cmdline, env, fs0, args, api_key, payload, request, posts, net,
                   response, result_json, exc, result, stderr, file, exit>>

\* main returns: exit status 0
Return ==
    /\ pc = "return"
    /\ exit' = Exited(0, "return")
    /\ pc' = "exited"
    /\ UNCHANGED <<cmdline, env, fs0, args, api_key, payload, request, posts, net,
                   response, result_json, exc, result, stdout, stderr, file>>

Next ==
    \/ ParseArgs
    \/ GetApiKey
    \/ BuildRequest
    \/ UrlOpen
    \/ ReadResponse
    \/ ExtractContent
    \/ ExceptHTTPError
    \/ ExceptURLError
    \/ ExceptTimeoutError
    \/ Traceback
    \/ PrintResult
    \/ SkipOutput
    \/ WriteOutput
    \/ PrintSaved
    \/ Return

Spec == Init /\ [][Next]_vars

-----------------------------------------------------------------------------
(* Vocabulary of the properties *)

ModeValid == cmdline.mode \in Modes

KeyPresent == "OPENROUTER_KEY" \in DOMAIN env /\ env["OPENROUTER_KEY"] # <<>>

\* -h/--help is reached before any argument is rejected
HelpReached ==
    \/ cmdline.help = "before_mode"
    \/ cmdline.help = "after_mode" /\ ModeValid

\* the response shape the gateway's protocol requires:
\* {choices: non-empty list of {message: {content: string}}}
HasContent(el) ==
    /\ el.t = "dict"
    /\ "message" \in DOMAIN el.o
    /\ el.o["message"].t = "dict"
    /\ "content" \in DOMAIN el.o["message"].o
    /\ el.o["message"].o["content"].t = "str"

RequiredShape(v) ==
    /\ v.t = "dict"
    /\ "choices" \in DOMAIN v.o
    /\ v.o["choices"].t = "list"
    /\ v.o["choices"].a # <<>>
    /\ \A i \in 1..Len(v.o["choices"].a) : HasContent(v.o["choices"].a[i])

WellFormedBody(b) ==
    /\ b.valid_utf8
    /\ JsonLoads(b.s).ok
    /\ RequiredShape(JsonLoads(b.s).v)

\* the one request got HTTP 200 and the whole body arrived
Got200 == net.kind = "ok" /\ ~net.read_timeout

\* the request timed out, in whichever phase
TimedOut ==
    \/ net.kind \in {"connect_timeout", "response_timeout"}
    \/ net.kind = "ok" /\ net.read_timeout

\* opening or writing the output file failed
IOFailed == exc.line \in 187..192

RECURSIVE DropLines(_, _)
\* text t without its first n lines
DropLines(t, n) ==
    IF n = 0 THEN t
    ELSE IF t = <<>> THEN <<>>
    ELSE DropLines(Tail(t), IF Head(t) = NL THEN n - 1 ELSE n)

LineBreaks(t) == Cardinality({i \in 1..Len(t) : t[i] = NL})

\* the string print(result) wrote, without print's own line break
PrintedResponse == SubSeq(stdout[8], 1, Len(stdout[8]) - 1)

SavedRun == exit.done /\ exit.how = "return" /\ Truthy(args.output)

-----------------------------------------------------------------------------
(* C1 *)

\* C1 (as stated): urlopen is called only if parse_args accepted the mode and
\* OPENROUTER_KEY is set and non-empty; with an invalid mode or an absent or empty
\* key the process ends with a non-zero status and no urlopen call.
C1_AsStated ==
    /\ posts > 0 => (args # Unset /\ args.mode \in Modes /\ KeyPresent)
    /\ (exit.done /\ (~ModeValid \/ ~KeyPresent)) => (exit.code # 0 /\ posts = 0)

\* C1 (amended): urlopen is called only if parse_args accepted the mode and
\* OPENROUTER_KEY is set and non-empty; with an invalid mode or an absent or empty
\* key no urlopen call is ever made, and the process ends with a non-zero status
\* unless -h/--help is reached first, in which case it ends with status 0.
C1_GatedPost ==
    /\ posts > 0 => (args # Unset /\ args.mode \in Modes /\ KeyPresent)
    /\ (~ModeValid \/ ~KeyPresent) => posts = 0
    /\ (exit.done /\ (~ModeValid \/ ~KeyPresent)) => (exit.code = 0 <=> HelpReached)

C1_Witness ==
    /\ exit.done
    /\ ModeValid
    /\ ~KeyPresent
    /\ cmdline.help = "absent"
    /\ cmdline.query # PyNone
    /\ exit.code = 1
    /\ posts = 0

-----------------------------------------------------------------------------
(* C2 *)

RunSucceeded == posts = 1 /\ Got200 /\ WellFormedBody(net.body) /\ ~IOFailed

RunFailed ==
    \/ exit.how = "argparse"
    \/ args # Unset /\ ~KeyPresent
    \/ posts = 1 /\ ~(Got200 /\ WellFormedBody(net.body))
    \/ IOFailed

\* C2: a successful run (HTTP 200, well-formed body, any requested file written)
\* ends with status 0, and every failure (validation, credential, HTTP error
\* status, network failure, timeout, malformed body) ends with a non-zero status.
C2_ExitCodes ==
    exit.done => /\ RunSucceeded => exit.code = 0
                 /\ RunFailed => exit.code # 0

-----------------------------------------------------------------------------
(* C3 *)

\* C3: at most one urlopen call per run, and after any failing outcome of it
\* (malformed body, HTTP error status, network error, timeout) the program does
\* nothing but terminate: it never goes on to main's presentation of a result.
C3_SingleAttempt ==
    /\ posts <= 1
    /\ (posts = 1 /\ ~(Got200 /\ WellFormedBody(net.body)))
          => /\ pc \in {"read", "extract", "raise", "exited"}
             /\ exit.done => exit.how # "return"

-----------------------------------------------------------------------------
(* C4 *)

NoChoices(v) ==
    /\ v.t = "dict"
    /\ "choices" \notin DOMAIN v.o \/ v.o["choices"] = PyList(<<>>)

EmptyChoicesReply ==
    /\ Got200
    /\ net.body.valid_utf8
    /\ JsonLoads(net.body.s).ok
    /\ NoChoices(JsonLoads(net.body.s).v)

\* C4: on HTTP 200 with a JSON object whose choices key is missing or is an empty
\* list, the program prints the body as JSON to stderr and exits non-zero, and the
\* output file is never opened or written, -o or not.
C4_EmptyChoices ==
    EmptyChoicesReply =>
        /\ file = fs0
        /\ result = Unset
        /\ exit.done =>
              /\ exit.code # 0
              /\ exit.how = "sys.exit"
              /\ stderr = << MalformedMessage,
                             <<"Response: ">>
                             \o JsonDumps(JsonLoads(net.body.s).v, 2) \o <<NL>> >>
              /\ net.body.s = <<"{", "\"", "choices", "\"", ": ", "[]", "}">>
                    => stderr[2] = <<"Response: ", "{", NL, " ", " ", "\"", "choices",
                                     "\"", ": ", "[]", NL, "}", NL>>

C4_Witness ==
    /\ exit.done
    /\ EmptyChoicesReply
    /\ net.body.s = <<"{", "\"", "choices", "\"", ": ", "[]", "}">>
    /\ Truthy(args.output)
    /\ fs0.exists

-----------------------------------------------------------------------------
(* C5 *)

\* C5 (as stated): after a successful run with an output path, the file without
\* its four-line header (four lines, each followed by an empty line) is the string
\* printed to stdout as the response.
C5_AsStated ==
    SavedRun => DropLines(file.content, 2 * 4) = PrintedResponse

\* C5 (amended): after a successful run with an output path, the file without its
\* header is the string printed to stdout as the response, where the header is the
\* four template lines, each followed by an empty line, plus one line for every
\* line break in the query.
C5_RoundTrip ==
    SavedRun =>
        DropLines(file.content, 2 * 4 + LineBreaks(args.query.s)) = PrintedResponse

C5_Witness ==
    /\ SavedRun
    /\ LineBreaks(args.query.s) > 0
    /\ result.s # <<>>
    /\ file.content # fs0.content

-----------------------------------------------------------------------------
(* C6 *)

\* C6: the payload is {model: MODELS[mode], messages: [system message with
\* SYSTEM_PROMPTS[mode], user message with the query unchanged]}, a function of
\* mode and query alone, and it is what the request carries.
C6_Payload ==
    LET want == PyDict([model |-> PyStr(<<MODELS[args.mode]>>),
                        messages |-> PyList(<<
                            PyDict([role |-> PyStr(<<"system">>),
                                    content |-> PyStr(<<SYSTEM_PROMPTS[args.mode]>>)]),
                            PyDict([role |-> PyStr(<<"user">>),
                                    content |-> cmdline.query])>>)])
    IN  /\ payload # Unset =>
              /\ payload = want
              /\ Len(payload.o["messages"].a) = 2
              /\ args.mode = cmdline.mode
        /\ request # Unset =>
              /\ request.data = Encode(JsonDumps(want, 0))
              /\ request.method = "POST"

C6_Witness ==
    /\ posts = 1
    /\ args.mode = "research"
    /\ payload.o["model"] = PyStr(<<"perplexity/sonar-deep-research">>)
    /\ payload.o["messages"].a[2].o["content"].s = <<"q", NL>>

-----------------------------------------------------------------------------
(* C7 *)

\* C7: on an HTTP error status the program prints the status code and reason to
\* stderr, then the body as parsed JSON if it parses and as raw text otherwise,
\* and exits non-zero; no result is returned, no banner printed, no file written.
C7_HttpError ==
    (net.kind = "http_error" /\ exit.done) =>
        /\ exit.code # 0
        /\ result = Unset
        /\ Len(stdout) = 4
        /\ file = fs0
        /\ stderr # <<>>
        /\ stderr[1] = <<"HTTP error ", ToString(net.code), ": ", net.reason, NL>>
        /\ (net.fp # PyNone /\ net.fp.valid_utf8 /\ net.fp.s # <<>>) =>
              /\ Len(stderr) = 2
              /\ stderr[2] = IF JsonLoads(net.fp.s).ok
                             THEN <<"Error detail: ">>
                                  \o JsonDumps(JsonLoads(net.fp.s).v, 2) \o <<NL>>
                             ELSE <<"Error detail: ">> \o net.fp.s \o <<NL>>

-----------------------------------------------------------------------------
(* C8 *)

\* C8: whenever the request times out, while connecting or sending or while
\* reading the response, the program prints the fixed timeout message to stderr
\* and exits non-zero; no other error branch reports a timeout.
C8_Timeout ==
    (TimedOut /\ exit.done) =>
        /\ exit.code # 0
        /\ stderr = <<TimeoutMessage>>

-----------------------------------------------------------------------------
(* C9 *)

\* C9: every HTTP 200 response whose body lacks the required shape is detected by
\* the program's own handling: the malformed-response diagnostic goes to stderr,
\* the process exits non-zero, and nothing is returned to main() as a result.
C9_MalformedDetected ==
    (Got200 /\ ~WellFormedBody(net.body)) =>
        /\ result = Unset
        /\ pc \notin {"present", "output", "saved", "return"}
        /\ exit.done =>
              /\ exit.code # 0
              /\ exit.how = "sys.exit"
              /\ stderr # <<>>
              /\ stderr[1] = MalformedMessage

-----------------------------------------------------------------------------
(* C10 *)

\* C10: a failure of opening or writing the output file is caught by no handler:
\* it leaves main() as an unhandled exception (traceback, non-zero status); it
\* happens only after the banner and the whole response are on stdout; and the
\* confirmation line is never printed on that path.
C10_FileFailure ==
    IOFailed =>
        /\ pc \in {"raise", "exited"}
        /\ posts = 1
        /\ Len(stdout) = 8
        /\ stdout[6] = <<"Search result:", NL>>
        /\ stdout[8] = PyToStr(result) \o <<NL>>
        /\ \A i \in 1..Len(stdout) :
              Len(stdout[i]) >= 2 => stdout[i][2] # "Result saved to: "
        /\ exit.done =>
              /\ exit.how = "traceback"
              /\ exit.code # 0
              /\ stderr = << <<"Traceback (most recent call last): ", exc.type, NL>> >>

C10_Witness ==
    /\ exit.done
    /\ IOFailed
    /\ exc.type = "OSError"
    /\ exc.line = 192
    /\ file.opened
    /\ result.t = "str"

====
